---- MODULE Spec2Model ----
(***************************************************************************)
(* The three notebooks of QualMod as one state machine.                    *)
(*                                                                         *)
(*   "extract"     src/README.md: the two export loops (MAT files to       *)
(*                 mon.csv and med.csv)                                    *)
(*   "simulation"  src/5.simulation_model_check.ipynb: sim_data, Utility,  *)
(*                 estimate_value                                          *)
(*   "priorsens"   src/4.1.PriorSensCheck.ipynb: subject re-indexing and   *)
(*                 the less-informed models                                *)
(*                                                                         *)
(* A run is one notebook session; Init picks the notebook, and the other   *)
(* notebooks' variables stay at their idle values.                         *)
(*                                                                         *)
(* Numbers: risk and ambiguity are percentages (0.25 is 25, 0.74 is 74),   *)
(* the attitudes riskTol and ambTol are tenths (1.6 is 16, -1.4 is -14).   *)
(* A dataframe is a sequence of row records, an array a sequence.          *)
(***************************************************************************)
EXTENDS Integers, Sequences, FiniteSets, TLC

VARIABLES
    notebook,    \* which notebook this session runs
    raised,      \* the exception the last executed statement left uncaught, or ""
    cell,        \* the next cell (or statement) of the notebook
    \* ---- extract (src/README.md)
    glober,      \* the task whose files the current glob pattern matches
    nfiles,      \* how many files the globs have yielded so far
    mat_fname,   \* the loop variable: the file being processed
    sub,         \* the subject number taken from the file name
    choice,      \* the list of raw responses read from the file
    df,          \* the accumulated table
    out,         \* what the cells printed
    csv,         \* the CSV files written: file name -> table
    \* ---- simulation (src/5.simulation_model_check.ipynb)
    db,          \* the trial table read from sim.csv
    N, noise,    \* the configuration the loop is simulating
    sim,         \* simdata, the table sim_data returned last
    sim_idx,     \* sub_idx, the array sim_data returned last
    utility,     \* what Utility returned last
    estimated,   \* what estimate_value returned last
    it,          \* how many configurations of test the loop has taken
    results,     \* the results table
    sim_out,     \* what the simulation loop printed
    sim_locals,  \* the arrays of the last sim_data call that returned
    \* ---- priorsens (src/4.1.PriorSensCheck.ipynb)
    db_mon, db_med,
    n_subs, idx, n_subs_med, idx_med,
    fits         \* the traces returned by the less-informed models: name -> trace

extractVars == <<glober, nfiles, mat_fname, sub, choice, df, out, csv>>
simVars     == <<db, N, noise, sim, sim_idx, utility, estimated, it, results, sim_out, sim_locals>>
priorVars   == <<db_mon, db_med, n_subs, idx, n_subs_med, idx_med, fits>>
vars        == <<notebook, raised, cell, extractVars, simVars, priorVars>>

----------------------------------------------------------------------------
(* Bounds of the model *)

MaxFiles == 3      \* files the two globs yield in one session, together
MaxSubs  == 2      \* n_subs passed to sim_data
MaxRows  == 3      \* rows of a cleaned table in the prior-sensitivity notebook
MaxConfigs == 4    \* configurations of test the simulation loop runs

(* Program constants *)

nBlocks        == 4     \* for j in range(4)
nTrialsInBlock == 21    \* for i in range(21)
TrialsPerSub   == 84    \* np.repeat(np.arange(n_subs), 84)
CatchLimit     == 5     \* if catch > 5
RefValue       == 5     \* db.value == 5, refValue = 5

----------------------------------------------------------------------------
(* Generic helpers *)

Range(s) == { s[i] : i \in DOMAIN s }

RECURSIVE SumSeq(_)
SumSeq(s) == IF s = <<>> THEN 0 ELSE Head(s) + SumSeq(Tail(s))

\* pandas' rank(method='dense') of x within a column whose set of values is
\* vals: 1 + the number of distinct values of the column below x
DenseRank(vals, x) == Cardinality({ y \in vals : y < x }) + 1

----------------------------------------------------------------------------
(* The task design.  Trial t (0-based) of the 84 task trials: six           *)
(* risk/ambiguity conditions, crossed with the outcome values; ambiguous    *)
(* trials have risk 50.                                                     *)

Values      == <<5, 8, 12, 25>>
RiskLevels  == {25, 50, 75}
AmbLevels   == {0, 24, 50, 74}
Conditions  == << [risk |-> 25, ambiguity |-> 0],  [risk |-> 50, ambiguity |-> 0],
                  [risk |-> 75, ambiguity |-> 0],  [risk |-> 50, ambiguity |-> 24],
                  [risk |-> 50, ambiguity |-> 50], [risk |-> 50, ambiguity |-> 74] >>

TaskTrial(t) ==
    LET c == Conditions[(t % 6) + 1]
        g == t \div 6
        v == IF g \in {0, 7} THEN 5 ELSE Values[(g % 3) + 2]
    IN  [value |-> v, risk |-> c.risk, ambiguity |-> c.ambiguity]

----------------------------------------------------------------------------
(* extract: the MAT files.                                                  *)
(*                                                                         *)
(* A dataframe cell that may hold a number, NaN or text.                    *)

Num(n)  == [t |-> "num", n |-> n, s |-> ""]
NaN     == [t |-> "nan", n |-> 0, s |-> ""]
Text(s) == [t |-> "str", n |-> 0, s |-> s]

Tasks == {"MON", "MED"}

\* The struct each task's files hold: mat['Datamon'] / mat['Datamed']
RefString(task) == IF task = "MON" THEN "Reference"
                   ELSE "Conservative treatment: Slight improvement"
LotString(task) == IF task = "MON" THEN "Lottery" ELSE "Experimental treatment"

\* What a file on disk can be.  kind: "ok" (every field reads), "noload"
\* (sio.loadmat raises), "nofields" (the value/risk/ambiguity vectors do not
\* read), "badchoice" (trial number badAt of the per-trial records, 0-based in
\* block-major order, does not read).  resp: the response strings of the
\* trials, repeated cyclically over the 84 trials (r stands for the task's
\* reference string, l for its lottery string, anything else for itself).  rot: where in the task
\* design the file's trial order starts.
FileShapes ==
    { [kind |-> "ok", badAt |-> 0, resp |-> <<"r", "l">>, rot |-> 0],
      [kind |-> "ok", badAt |-> 0, resp |-> <<"l", "l", "None">>, rot |-> 0],
      [kind |-> "ok", badAt |-> 0, resp |-> <<"l", "r", "r", "r", "r">>, rot |-> 7],
      [kind |-> "ok", badAt |-> 0, resp |-> <<"r", "r", "l", "r", "r", "r", "Other">>, rot |-> 0],
      [kind |-> "ok", badAt |-> 0, resp |-> <<"l", "Other">>, rot |-> 0],
      [kind |-> "noload", badAt |-> 0, resp |-> <<"r">>, rot |-> 0],
      [kind |-> "nofields", badAt |-> 0, resp |-> <<"r">>, rot |-> 0],
      [kind |-> "badchoice", badAt |-> 30, resp |-> <<"l">>, rot |-> 0] }

\* The subject folders, in the order the globs yield their files
Subjects == <<"12", "28", "60", "99">>

NoFile == [task |-> "", sub |-> "", kind |-> "", badAt |-> 0, resp |-> <<>>, rot |-> 0]

MatFile(task, n, shape) ==
    [task |-> task, sub |-> Subjects[n], kind |-> shape.kind, badAt |-> shape.badAt,
     resp |-> shape.resp, rot |-> shape.rot]

\* mat[Data][0][0][17][j][i][0][0]: the response string of trial i of block j
TrialChoice(f, j, i) ==
    LET k == j * nTrialsInBlock + i
        r == f.resp[(k % Len(f.resp)) + 1]
    IN  IF r = "r" THEN RefString(f.task)
        ELSE IF r = "l" THEN LotString(f.task)
        ELSE r

\* mat[Data][0][0][8], [9], [10] and mat[Data]['rt']: entry k (1-based).  The
\* reaction times a medical file holds are none a monetary file holds, so
\* that a row shows the task of the file it was read from.
FileTrial(f, k) == TaskTrial((k - 1 + f.rot) % TrialsPerSub)
FileRT(f, k)    == (IF f.task = "MON" THEN 100 ELSE 200) + k

\* choice = [] at the top of the loop body, before the trials are read
ChoiceListKept(old) == old

ChoiceList(old) == <<>>

\* The loop over blocks and trials that fills the list choice; a trial that
\* does not read ends it with the trials before it appended.
ReadChoicesTrialMajor(f) ==
    LET n == IF f.kind = "badchoice" THEN f.badAt ELSE nBlocks * nTrialsInBlock
    IN  [k \in 1..n |-> TrialChoice(f, (k - 1) % nBlocks, (k - 1) \div nBlocks)]

ReadChoices(f) ==
    LET n == IF f.kind = "badchoice" THEN f.badAt ELSE nBlocks * nTrialsInBlock
    IN  [k \in 1..n |-> TrialChoice(f, (k - 1) \div nTrialsInBlock, (k - 1) % nTrialsInBlock)]

\* Series.replace([old], new) on one cell
Replace(c, old, new) == IF c.t = "str" /\ c.s = old THEN new ELSE c

\* The three replace calls of a loop: the task's two response strings to 0 and
\* 1, 'None' to NaN
RecodeChoice(task, raw) ==
    Replace(Replace(Replace(Text(raw), RefString(task), Num(0)),
                    LotString(task), Num(1)),
            "None", NaN)

\* db before the catch column is set: one row per entry of the list choice,
\* the task columns taken from the file's vectors by position
SubjectRows(f, ch) ==
    [k \in 1..Len(ch) |->
        [choice    |-> RecodeChoice(f.task, ch[k]),
         value     |-> FileTrial(f, k).value,
         risk      |-> FileTrial(f, k).risk,
         ambiguity |-> FileTrial(f, k).ambiguity,
         sub       |-> f.sub,
         rt        |-> FileRT(f, k)]]

\* db.choice[db.value == 5]
CatchCells(rows) ==
    LET sel == SelectSeq(rows, LAMBDA r : r.value = RefValue)
    IN  [k \in 1..Len(sel) |-> sel[k].choice]

\* np.nansum over cells: NaN counts as 0; text among the cells makes the sum
\* (or its comparison with 5) raise TypeError
NanSumRaises(cells) == \E k \in DOMAIN cells : cells[k].t = "str"
NanSum(cells)       == SumSeq([k \in DOMAIN cells |-> cells[k].n])

\* db['catch'] = catch
WithCatch(rows, catch) ==
    [k \in DOMAIN rows |->
        [choice |-> rows[k].choice, value |-> rows[k].value, risk |-> rows[k].risk,
         ambiguity |-> rows[k].ambiguity, sub |-> rows[k].sub, rt |-> rows[k].rt,
         catch |-> catch]]

\* pd.concat([df, db])
ConcatFront(a, b) == b \o a

Concat(a, b) == a \o b

\* Lines printed by the loops
CatchLine(s, n)  == [text |-> "", sub |-> s, n |-> n]
FailedChoice(s)  == [text |-> "failed choice", sub |-> s, n |-> 0]

\* From "db = pd.DataFrame(...)" to the end of the loop body, the same in both
\* loops
BuildAndAppend(f, ch) ==
    LET rows  == SubjectRows(f, ch)
        cells == CatchCells(rows)
        catch == NanSum(cells)
    IN  IF NanSumRaises(cells)
        THEN /\ raised' = "TypeError"
             /\ UNCHANGED <<df, out>>
        ELSE /\ raised' = ""
             /\ out' = IF catch > CatchLimit THEN Append(out, CatchLine(f.sub, catch)) ELSE out
             /\ df' = Concat(df, WithCatch(rows, catch))

\* The except branch of the medical loop: print and continue
MedExceptSilent(f) ==
    /\ raised' = ""
    /\ UNCHANGED <<df, out>>

MedExcept(f) ==
    /\ raised' = ""
    /\ out' = Append(out, FailedChoice(f.sub))
    /\ UNCHANGED df

\* One iteration of "for mat_fname in glob(glober)" of the monetary loop
MonIter(f) ==
    /\ notebook = "extract" /\ raised = "" /\ cell = "mon_loop"
    /\ nfiles < MaxFiles
    /\ f.task = glober
    /\ nfiles' = nfiles + 1
    /\ mat_fname' = f
    /\ UNCHANGED <<cell, glober, csv>>
    /\ IF f.kind = "noload"
       THEN /\ raised' = "loadmat"
            /\ UNCHANGED <<sub, choice, df, out>>
       ELSE /\ sub' = f.sub
            /\ IF f.kind = "nofields"
               THEN /\ raised' = "IndexError"
                    /\ UNCHANGED <<choice, df, out>>
               ELSE /\ choice' = ChoiceList(choice) \o ReadChoices(f)
                    /\ IF f.kind = "badchoice"
                       THEN /\ raised' = "IndexError"
                            /\ UNCHANGED <<df, out>>
                       ELSE BuildAndAppend(f, choice')
    /\ UNCHANGED <<simVars, priorVars, notebook>>

\* df.to_csv('data/mon.csv')
MonSave ==
    /\ notebook = "extract" /\ raised = "" /\ cell = "mon_loop"
    /\ csv' = [n \in DOMAIN csv \cup {"mon.csv"} |-> IF n = "mon.csv" THEN df ELSE csv[n]]
    /\ cell' = "med_init"
    /\ UNCHANGED <<raised, glober, nfiles, mat_fname, sub, choice, df, out>>
    /\ UNCHANGED <<simVars, priorVars, notebook>>

\* df = pd.DataFrame()
NewDataFrameKept(old) == old

NewDataFrame(old) == <<>>

\* glober = '.../MDM_MED_*.mat'; df = pd.DataFrame()
MedInit ==
    /\ notebook = "extract" /\ raised = "" /\ cell = "med_init"
    /\ glober' = "MED"
    /\ df' = NewDataFrame(df)
    /\ cell' = "med_loop"
    /\ UNCHANGED <<raised, nfiles, mat_fname, sub, choice, out, csv>>
    /\ UNCHANGED <<simVars, priorVars, notebook>>

\* One iteration of the medical loop
MedIter(f) ==
    /\ notebook = "extract" /\ raised = "" /\ cell = "med_loop"
    /\ nfiles < MaxFiles
    /\ f.task = glober
    /\ nfiles' = nfiles + 1
    /\ mat_fname' = f
    /\ UNCHANGED <<cell, glober, csv>>
    /\ IF f.kind = "noload"
       THEN /\ raised' = "loadmat"
            /\ UNCHANGED <<sub, choice, df, out>>
       ELSE /\ sub' = f.sub
            /\ IF f.kind = "nofields"
               THEN /\ raised' = "IndexError"
                    /\ UNCHANGED <<choice, df, out>>
               ELSE /\ choice' = ChoiceList(choice) \o ReadChoices(f)
                    /\ IF f.kind = "badchoice"
                       THEN MedExcept(f)
                       ELSE BuildAndAppend(f, choice')
    /\ UNCHANGED <<simVars, priorVars, notebook>>

\* df.to_csv('data/med.csv')
MedSave ==
    /\ notebook = "extract" /\ raised = "" /\ cell = "med_loop"
    /\ csv' = [n \in DOMAIN csv \cup {"med.csv"} |-> IF n = "med.csv" THEN df ELSE csv[n]]
    /\ cell' = "end"
    /\ UNCHANGED <<raised, glober, nfiles, mat_fname, sub, choice, df, out>>
    /\ UNCHANGED <<simVars, priorVars, notebook>>

\* The files a glob can yield next
NextFiles ==
    IF nfiles < Len(Subjects)
    THEN { MatFile(glober, nfiles + 1, sh) : sh \in FileShapes }
    ELSE {}

ExtractInit ==
    /\ cell = "mon_loop"
    /\ glober = "MON"
    /\ nfiles = 0
    /\ mat_fname = NoFile
    /\ sub = ""
    /\ choice = <<>>
    /\ df = <<>>
    /\ out = <<>>
    /\ csv = <<>>

ExtractNext ==
    \/ \E f \in NextFiles : MonIter(f)
    \/ MonSave
    \/ MedInit
    \/ \E f \in NextFiles : MedIter(f)
    \/ MedSave

----------------------------------------------------------------------------
(* simulation: sim.csv, sim_data, Utility, estimate_value                   *)

\* What sim.csv can hold: the 84 task trials; the same in another order; a
\* table in which no trial has value 8; a table with a fifth outcome value; a
\* table one trial short.
DesignTable   == [k \in 1..TrialsPerSub |-> TaskTrial(k - 1)]
RotatedTable  == [k \in 1..TrialsPerSub |-> TaskTrial((k + 40) % TrialsPerSub)]
No8Table      == [k \in 1..TrialsPerSub |->
                    [value     |-> IF DesignTable[k].value = 8 THEN 12 ELSE DesignTable[k].value,
                     risk      |-> DesignTable[k].risk,
                     ambiguity |-> DesignTable[k].ambiguity]]
FiveValTable  == [k \in 1..TrialsPerSub |->
                    [value     |-> IF k = 20 THEN 40 ELSE DesignTable[k].value,
                     risk      |-> DesignTable[k].risk,
                     ambiguity |-> DesignTable[k].ambiguity]]
ShortTable    == SubSeq(DesignTable, 1, TrialsPerSub - 1)
SimTables     == {DesignTable, RotatedTable, No8Table, FiveValTable, ShortTable}

\* The draws of one sim_data call.  att: per subject, the attitudes drawn from
\* 2*Beta(a_a, a_b) and from the normal truncated to [lower_bound, upper_bound]
\* (repeated cyclically over the subjects).  na, nb: per row, the two noise
\* terms in units of the noise level; ch: per row, the binomial outcome (both
\* repeated cyclically over the rows).
SimDraws ==
    { [att |-> << [alpha |-> 6, beta |-> -14] >>,
       na  |-> <<0>>, nb |-> <<0>>, ch |-> <<0>>],
      [att |-> << [alpha |-> 6, beta |-> 6], [alpha |-> 19, beta |-> -14] >>,
       na  |-> <<3, -3, 0>>, nb |-> <<-3, 0, 3>>, ch |-> <<1, 0, 1>>] }

\* test, with N in units of 30 simulated subjects and noise in tenths
test == << <<1, 1>>, <<1, 3>>, <<1, 5>>, <<2, 3>>, <<2, 5>>, <<4, 5>>, <<10, 5>> >>

Min(a, b) == IF a < b THEN a ELSE b

\* The configurations the loop runs, and SIM for the k-th of them
NConfigs == Min(Len(test), MaxConfigs)
SIM(k)   == IF k \in DOMAIN test THEN <<Min(test[k][1], MaxSubs), test[k][2]>> ELSE <<0, 0>>

\* Lines printed by the loop
Simulating(n, z)          == [text |-> "Simulating with", N |-> n, noise |-> z, e |-> ""]
SimulationFailed(n, z, e) == [text |-> "Simulation failed for", N |-> n, noise |-> z, e |-> e]

Cyc(pattern, k) == pattern[((k - 1) % Len(pattern)) + 1]

\* np.clip
ClipWide(x, lo, hi) == IF x < lo THEN lo ELSE IF x > hi + 2 THEN hi + 2 ELSE x

Clip(x, lo, hi) == IF x < lo THEN lo ELSE IF x > hi THEN hi ELSE x

RiskTolLo == 1      \* np.clip(riskTol, 0.1, 1.6)
RiskTolHi == 16
AmbTolLo  == -14    \* np.clip(ambTol, -1.4, 1.4)
AmbTolHi  == 14

\* np.tile(a, n)[k-1]: a repeated n times end to end
TileAtShifted(a, k) == a[((k - 1 + (k - 1) \div Len(a)) % Len(a)) + 1]

TileAt(a, k) == a[((k - 1) % Len(a)) + 1]

\* np.repeat(a, r)[k-1]: each element of a repeated r times
RepeatAtTiled(a, r, k) == a[((k - 1) % Len(a)) + 1]

RepeatAt(a, r, k) == a[((k - 1) \div r) + 1]

\* np.arange(n)
Arange(n) == [k \in 1..n |-> k - 1]

\* simdata['value'].rank(method='dense').astype(int), for the rows of value v
LevelOfFixed(vals, v) ==
    IF v = 5 THEN 1 ELSE IF v = 8 THEN 2 ELSE IF v = 12 THEN 3 ELSE 4

LevelOf(vals, v) == DenseRank(vals, v)

\* (simdata.level > j).astype(int)
IndicatorAtLeast(level, j) == IF level >= j THEN 1 ELSE 0

Indicator(level, j) == IF level > j THEN 1 ELSE 0

\* sub_idx = np.repeat(np.arange(n_subs), 84)
SubIdxPerTable(n, d) == [k \in 1..(n * Len(d)) |-> RepeatAt(Arange(n), Len(d), k)]

SubIdxOneBased(n, d) == [k \in 1..(n * TrialsPerSub) |-> RepeatAt(Arange(n), TrialsPerSub, k) + 1]

SubIdx(n, d) == [k \in 1..(n * TrialsPerSub) |-> RepeatAt(Arange(n), TrialsPerSub, k)]

\* pd.DataFrame({...}) raises ValueError unless all arrays have one length:
\* len(d) * n for the tiled and repeated arrays, 84 * n for ID
SimDataRaises(d, n) == Len(d) * n # Len(SubIdx(n, d))

\* x ** (a / 10) in hundredths, rounded, for the outcome values that occur
\* and the exponents 0.1 .. 1.9
PowTable ==
    [v \in {5, 8, 12, 25, 40} |->
        CASE v = 5  -> <<117, 138, 162, 190, 224, 263, 309, 362, 426, 500, 587, 690,
                         810, 952, 1118, 1313, 1543, 1812, 2128>>
          [] v = 8  -> <<123, 152, 187, 230, 283, 348, 429, 528, 650, 800, 985, 1213,
                         1493, 1838, 2263, 2786, 3430, 4222, 5198>>
          [] v = 12 -> <<128, 164, 211, 270, 346, 444, 569, 730, 936, 1200, 1539, 1973,
                         2529, 3242, 4157, 5330, 6833, 8760, 11232>>
          [] v = 25 -> <<138, 190, 263, 362, 500, 690, 952, 1313, 1812, 2500, 3449,
                         4759, 6566, 9060, 12500, 17247, 23796, 32832, 45299>>
          [] v = 40 -> <<145, 209, 302, 437, 632, 915, 1323, 1913, 2766, 4000, 5785,
                         8365, 12097, 17494, 25298, 36584, 52906, 76508, 110640>>]

Pow(v, a) == PowTable[v][a]

\* risk - beta * (ambiguity / 2) in units of 1/2000 (risk and ambiguity in
\* percent, beta in tenths)
ProbUnit == 2000
Prob(risk, beta, ambiguity) == 20 * risk - beta * ambiguity

\* uRef = refValue ** riskTol and uLotto = (value ** riskTol) * (risk - ambTol
\* * (ambiguity / 2)) for one row, in units of 1/200000
URef(riskTol) == Pow(RefValue, riskTol) * ProbUnit

ULottoFullAmbiguity(trial, riskTol, ambTol) ==
    Pow(trial.value, riskTol) * Prob(trial.risk, 2 * ambTol, trial.ambiguity)

ULotto(trial, riskTol, ambTol) ==
    Pow(trial.value, riskTol) * Prob(trial.risk, ambTol, trial.ambiguity)

\* The arrays sim_data computes on the way: the drawn attitudes, the noise
\* terms, and uRef and uLotto (in units of 1/200000) from the clipped riskTol
\* and ambTol
SimLocals(d, n, att, na, nb) ==
    LET len == Len(d) * n
        per == len \div n
        riskTol(k) == Clip(RepeatAt(att, per, k).alpha + Cyc(na, k), RiskTolLo, RiskTolHi)
        ambTol(k)  == Clip(RepeatAt(att, per, k).beta + Cyc(nb, k), AmbTolLo, AmbTolHi)
    IN  [alpha_true   |-> [k \in 1..n |-> att[k].alpha],
         beta_true    |-> [k \in 1..n |-> att[k].beta],
         noise_dist_a |-> [k \in 1..len |-> Cyc(na, k)],
         noise_dist_b |-> [k \in 1..len |-> Cyc(nb, k)],
         uRef   |-> [k \in 1..len |-> URef(riskTol(k))],
         uLotto |-> [k \in 1..len |-> ULotto(TileAt(d, k), riskTol(k), ambTol(k))]]

\* sp.special.expit(x) for x in units of 1/200000: in double precision the
\* result is exactly 1.0 from x = 37 on (1 + exp(-37) rounds to 1)
ExpitIsOne(x) == x >= 37 * 100 * ProbUnit

\* np.random.binomial(1, p) with p = expit(x): 1 when p is 1.0, otherwise the
\* outcome drawn
Binomial(draw, x) == IF ExpitIsOne(x) THEN 1 ELSE draw

\* The table sim_data returns for trial table d, n subjects and the draws
\* att (per subject), na, nb and ch (per row)
SimData(d, n, att, na, nb, ch) ==
    LET len      == Len(d) * n
        per      == len \div n
        sub_idx  == SubIdx(n, d)
        vals     == { TileAt(d, k).value : k \in 1..len }
    IN  [k \in 1..len |->
            LET trial   == TileAt(d, k)
                level   == LevelOf(vals, trial.value)
                riskTol == Clip(RepeatAt(att, per, k).alpha + Cyc(na, k),
                                RiskTolLo, RiskTolHi)
                ambTol  == Clip(RepeatAt(att, per, k).beta + Cyc(nb, k),
                                AmbTolLo, AmbTolHi)
                uRef    == URef(riskTol)
                uLotto  == ULotto(trial, riskTol, ambTol)
            IN  [sub       |-> sub_idx[k] + 1,
                 choice    |-> Binomial(Cyc(ch, k), uLotto - uRef),
                 value     |-> trial.value,
                 risk      |-> trial.risk,
                 ambiguity |-> trial.ambiguity,
                 riskTol   |-> riskTol,
                 ambTol    |-> ambTol,
                 level     |-> level,
                 l1        |-> Indicator(level, 0),
                 l2        |-> Indicator(level, 1),
                 l3        |-> Indicator(level, 2),
                 l4        |-> Indicator(level, 3)]]

\* db after a call of sim_data: the function reads copies of its columns
\* (np.array(db.value)) and assigns to none
DbAfterSimData(d) == d

\* for SIM in test: the position of the iterator after it has yielded element
\* number i + 1
NextSIMSkipping(i) == i + 2

NextSIM(i) == i + 1

\* except Exception as e: print(...).  The statement that runs after the
\* clause, for an exception raised before the statement next: the loop header,
\* with the next SIM
AfterExceptResumes(next) == next

AfterExcept(next) == "sim_data"

\* N = SIM[0]; noise = SIM[1]; sim, sim_idx = sim_data(N, noise=noise): the
\* first statements of the body of "for SIM in test", for the configuration
\* (n, z) and the draws dr.  An exception raised in the body is caught by the
\* loop's except clause, which prints and lets the loop go on; raised keeps it
\* (the clause's e).
SimDataCall(n, z, dr) ==
    /\ notebook = "simulation" /\ cell = "sim_data"
    /\ it < NConfigs
    /\ <<n, z>> = SIM(it + 1)
    /\ it' = NextSIM(it)
    /\ N' = n
    /\ noise' = z
    /\ db' = DbAfterSimData(db)
    /\ IF SimDataRaises(db, n)
       THEN /\ raised' = "ValueError"
            /\ cell' = AfterExcept("Utility")
            /\ sim_out' = sim_out \o <<Simulating(n, z), SimulationFailed(n, z, raised')>>
            /\ UNCHANGED <<sim, sim_idx, sim_locals>>
       ELSE /\ raised' = ""
            /\ cell' = "Utility"
            /\ sim_out' = Append(sim_out, Simulating(n, z))
            /\ sim' = SimData(db, n, [k \in 1..n |-> Cyc(dr.att, k)],
                              [k \in DOMAIN dr.na |-> dr.na[k] * z],
                              [k \in DOMAIN dr.nb |-> dr.nb[k] * z], dr.ch)
            /\ sim_idx' = SubIdx(n, db)
            /\ sim_locals' = SimLocals(db, n, [k \in 1..n |-> Cyc(dr.att, k)],
                                       [k \in DOMAIN dr.na |-> dr.na[k] * z],
                                       [k \in DOMAIN dr.nb |-> dr.nb[k] * z])
    /\ UNCHANGED <<utility, estimated, results>>
    /\ UNCHANGED <<extractVars, priorVars, notebook>>

\* The parameters of one subject in a posterior draw: alpha, beta, gamma and
\* the levels in tenths (a model reads only the ones it declares)
Params(al, be, ga, lv) ==
    [alpha |-> al, beta |-> be, gamma |-> ga,
     level1 |-> lv[1], level2 |-> lv[2], level3 |-> lv[3], level4 |-> lv[4]]

\* The support of alpha = 2 * Beta is the open interval (AlphaLo, AlphaHi); beta
\* of Utility and estimate_value is truncated to [BetaLo, BetaHi]
AlphaLo == 0
AlphaHi == 20
BetaLo  == -15
BetaHi  == 15

\* The supports the models declare for their subject-level parameters
\*   Utility, Utility_less_informed: alpha = 2 * Beta, beta in [-1.5, 1.5]
\*   Utility_uninformed: alpha in [0.1, 1.8], beta in [-1, 1], p divided by 1
\*   estimate_value: beta in [-1.5, 1.5], levels >= 0
\*   estamte_values_less: beta Normal (unbounded), levels >= 0
\* and for each model two draws (the parameters subject by subject, repeated
\* cyclically over the subjects)
ParamDraws(model) ==
    CASE model \in {"Classic Utility", "Utility_less_informed"} ->
            { << Params(10, 15, 10, <<0, 0, 0, 0>>), Params(19, -15, 5, <<0, 0, 0, 0>>) >>,
              << Params(1, 0, 20, <<0, 0, 0, 0>>) >> }
      [] model = "Utility_uninformed" ->
            { << Params(18, -10, 10, <<0, 0, 0, 0>>), Params(1, 10, 10, <<0, 0, 0, 0>>) >>,
              << Params(10, 0, 10, <<0, 0, 0, 0>>) >> }
      [] model = "Estimated value" ->
            { << Params(0, -15, 10, <<0, 0, 0, 0>>), Params(0, 15, 8, <<40, 5, 0, 30>>) >>,
              << Params(0, 6, 12, <<40, 40, 40, 40>>) >> }
      [] model = "estamte_values_less" ->
            { << Params(0, 25, 10, <<35, 0, 12, 3>>), Params(0, -30, 8, <<0, 0, 0, 0>>) >>,
              << Params(0, 6, 12, <<40, 40, 40, 40>>) >> }

\* x[idx]: indexing a parameter vector of length n with the array ix raises
\* when an index is outside -n .. n-1
IndexRaises(n, ix) == \E k \in DOMAIN ix : ix[k] < -n \/ ix[k] >= n

\* x[i] for a vector x of length n (negative indices count from the end)
At(x, n, i) == x[(IF i < 0 THEN i + n ELSE i) + 1]

UtilityTermsRefOne(r, par, den) ==
    LET value   == Pow(r.value, par.alpha)
        prob    == Prob(r.risk, par.beta, r.ambiguity)
        svLotto == value * prob
        svRef   == 100 * ProbUnit
    IN  [val |-> value, prob |-> prob, svLotto |-> svLotto, svRef |-> svRef,
         num |-> svLotto - svRef, den |-> den]

\* The trial-wise terms of the utility models for row r and the subject's
\* parameters par: value, prob, svLotto, svRef and p = num / (den / 10)
\* (svLotto, svRef and num in units of 1/200000)
UtilityTerms(r, par, den) ==
    LET value   == Pow(r.value, par.alpha)
        prob    == Prob(r.risk, par.beta, r.ambiguity)
        svLotto == value * prob
        svRef   == Pow(RefValue, par.alpha) * ProbUnit
    IN  [val |-> value, prob |-> prob, svLotto |-> svLotto, svRef |-> svRef,
         num |-> svLotto - svRef, den |-> den]

\* The same for the estimated-value models (val in tenths, svLotto, svRef and
\* num in units of 1/20000)
ValueTermsNoL3(r, par) ==
    LET val     == r.l1 * par.level1 + r.l2 * par.level2 + r.l4 * par.level4
        prob    == Prob(r.risk, par.beta, r.ambiguity)
        svLotto == val * prob
        svRef   == par.level1 * ProbUnit
    IN  [val |-> val, prob |-> prob, svLotto |-> svLotto, svRef |-> svRef,
         num |-> svLotto - svRef, den |-> par.gamma]

ValueTerms(r, par) ==
    LET val     == r.l1 * par.level1 + r.l2 * par.level2
                   + r.l3 * par.level3 + r.l4 * par.level4
        prob    == Prob(r.risk, par.beta, r.ambiguity)
        svLotto == val * prob
        svRef   == par.level1 * ProbUnit
    IN  [val |-> val, prob |-> prob, svLotto |-> svLotto, svRef |-> svRef,
         num |-> svLotto - svRef, den |-> par.gamma]

ModelTerms(model, r, par) ==
    CASE model \in {"Classic Utility", "Utility_less_informed"} -> UtilityTerms(r, par, par.gamma)
      [] model = "Utility_uninformed" -> UtilityTerms(r, par, 10)
      [] model \in {"Estimated value", "estamte_values_less"} -> ValueTerms(r, par)

\* What a model function returns for table d, n subjects and index ix: the
\* trace of a model fitted to the len(d) observed choices, at the draw p: the
\* subjects' parameters and, observation by observation, the terms the
\* log-likelihood is computed from
Trace(name, d, n, ix, p) ==
    LET params == [k \in 1..n |-> Cyc(p, k)]
    IN  [model |-> name, n_subs |-> n, nobs |-> Len(d), params |-> params,
         terms |-> [k \in DOMAIN d |-> ModelTerms(name, d[k], At(params, n, ix[k]))]]

\* The table a model function leaves behind: it reads df['value'].values,
\* df['risk'].values, df['ambiguity'].values, df['l1'..'l4'].values and
\* df['choice'], and assigns to no column
FrameAfterFitDropped(d) == SelectSeq(d, LAMBDA r : r.choice # 0)

FrameAfterFit(d) == d

\* utility = Utility(sim, N, sim_idx).  sampled: whether pm.sample returns;
\* an exception ends the iteration.
UtilityCall(p, sampled) ==
    /\ notebook = "simulation" /\ cell = "Utility"
    /\ IF IndexRaises(N, sim_idx) \/ ~sampled
       THEN /\ raised' = IF sampled THEN "IndexError" ELSE "SamplingError"
            /\ cell' = AfterExcept("estimate_value")
            /\ sim_out' = Append(sim_out, SimulationFailed(N, noise, raised'))
            /\ UNCHANGED utility
       ELSE /\ raised' = ""
            /\ cell' = "estimate_value"
            /\ utility' = Trace("Classic Utility", sim, N, sim_idx, p)
            /\ UNCHANGED sim_out
    /\ sim' = FrameAfterFit(sim)
    /\ UNCHANGED <<db, N, noise, sim_idx, estimated, it, results, sim_locals>>
    /\ UNCHANGED <<extractVars, priorVars, notebook>>

\* estimated = estimate_value(sim, N, sim_idx)
EstimateValueCall(p, sampled) ==
    /\ notebook = "simulation" /\ cell = "estimate_value"
    /\ IF IndexRaises(N, sim_idx) \/ ~sampled
       THEN /\ raised' = IF sampled THEN "IndexError" ELSE "SamplingError"
            /\ cell' = AfterExcept("compare")
            /\ sim_out' = Append(sim_out, SimulationFailed(N, noise, raised'))
            /\ UNCHANGED estimated
       ELSE /\ raised' = ""
            /\ cell' = "compare"
            /\ estimated' = Trace("Estimated value", sim, N, sim_idx, p)
            /\ UNCHANGED sim_out
    /\ sim' = FrameAfterFit(sim)
    /\ UNCHANGED <<db, N, noise, sim_idx, utility, it, results, sim_locals>>
    /\ UNCHANGED <<extractVars, priorVars, notebook>>

\* az.compare({'Classic Utility': utility, 'Estimated value': estimated}): the
\* comparison table of the two traces
Compare(u, e) == [models |-> <<u.model, e.model>>, nobs |-> <<u.nobs, e.nobs>>]

\* results = pd.concat([results, new_row], ignore_index=True)
ResultsReplaced(res, n, z, comp) == << [N |-> n, noise |-> z, Comparison |-> comp] >>

ResultsWithRow(res, n, z, comp) == Append(res, [N |-> n, noise |-> z, Comparison |-> comp])

\* comp = az.compare(...) and the two statements that add the row to results;
\* compared: whether az.compare returns
CompareCall(compared) ==
    /\ notebook = "simulation" /\ cell = "compare"
    /\ IF compared
       THEN /\ raised' = ""
            /\ results' = ResultsWithRow(results, N, noise, Compare(utility, estimated))
            /\ UNCHANGED sim_out
       ELSE /\ raised' = "CompareError"
            /\ sim_out' = Append(sim_out, SimulationFailed(N, noise, raised'))
            /\ UNCHANGED results
    /\ cell' = "sim_data"
    /\ UNCHANGED <<db, N, noise, sim, sim_idx, utility, estimated, it, sim_locals>>
    /\ UNCHANGED <<extractVars, priorVars, notebook>>

SimInit ==
    /\ cell = "sim_data"
    /\ db \in SimTables
    /\ N = 0
    /\ noise = 0
    /\ sim = <<>>
    /\ sim_idx = <<>>
    /\ utility = <<>>
    /\ estimated = <<>>
    /\ it = 0
    /\ results = <<>>
    /\ sim_out = <<>>
    /\ sim_locals = <<>>

SimNext ==
    \/ \E dr \in SimDraws : SimDataCall(SIM(it + 1)[1], SIM(it + 1)[2], dr)
    \/ \E compared \in BOOLEAN : CompareCall(compared)
    \/ \E p \in ParamDraws("Classic Utility"), sampled \in BOOLEAN : UtilityCall(p, sampled)
    \/ \E p \in ParamDraws("Estimated value"), sampled \in BOOLEAN : EstimateValueCall(p, sampled)

----------------------------------------------------------------------------
(* priorsens: the cleaned tables, the re-indexing cell and the model calls  *)

\* The participant numbers a cleaned file can hold
SubIds == {3, 7, 12}

\* A cleaned table whose rows belong to the subjects subs, in this order.  The
\* subn column is what the file holds before the notebook assigns it.
CleanTable(subs) ==
    [k \in 1..Len(subs) |->
        LET trial == TaskTrial(5 * k)
            level == DenseRank(Range(Values), trial.value)
        IN  [sub       |-> subs[k],
             choice    |-> (k + subs[k]) % 2,
             value     |-> trial.value,
             risk      |-> trial.risk,
             ambiguity |-> trial.ambiguity,
             level     |-> level,
             l1        |-> IF level > 0 THEN 1 ELSE 0,
             l2        |-> IF level > 1 THEN 1 ELSE 0,
             l3        |-> IF level > 2 THEN 1 ELSE 0,
             l4        |-> IF level > 3 THEN 1 ELSE 0,
             subn      |-> -1]]

SeqsUpTo(S, n) == UNION { [1..m -> S] : m \in 0..n }

MonTables == { CleanTable(s) : s \in SeqsUpTo(SubIds, MaxRows) }
MedTables == { CleanTable(s) : s \in SeqsUpTo({3, 12}, MaxRows) }

\* d['sub'].rank(method='dense').astype(int) - 1, for the rows of subject x
SubjectNumberMinRank(col, x) == Cardinality({ i \in DOMAIN col : col[i] < x })

SubjectNumber(col, x) == DenseRank(Range(col), x) - 1

\* d['subn'] = d['sub'].rank(method='dense').astype(int) - 1
WithSubnAsSub(d) ==
    LET col == [k \in DOMAIN d |-> d[k].sub]
    IN  [k \in DOMAIN d |-> [d[k] EXCEPT !.subn = SubjectNumber(col, d[k].sub),
                                         !.sub  = SubjectNumber(col, d[k].sub)]]

WithSubn(d) ==
    LET col == [k \in DOMAIN d |-> d[k].sub]
    IN  [k \in DOMAIN d |-> [d[k] EXCEPT !.subn = SubjectNumber(col, d[k].sub)]]

\* d['subn'].unique().shape[0]
NUnique(d) == Cardinality({ d[k].subn : k \in DOMAIN d })

\* d.subn.tolist()
SubnList(d) == [k \in DOMAIN d |-> d[k].subn]

\* The cell that assigns subn, n_subs, idx, n_subs_med and idx_med
Reindex ==
    /\ notebook = "priorsens" /\ raised = "" /\ cell = "reindex"
    /\ db_mon' = WithSubn(db_mon)
    /\ n_subs' = NUnique(db_mon')
    /\ idx' = SubnList(db_mon')
    /\ db_med' = WithSubn(db_med)
    /\ n_subs_med' = NUnique(db_med')
    /\ idx_med' = SubnList(db_med')
    /\ cell' = "Utility_less_informed"
    /\ UNCHANGED <<raised, fits>>
    /\ UNCHANGED <<extractVars, simVars, notebook>>

\* name = f(d, n, ix), one statement of the cell that fits the models
Fit(name, model, d, n, ix, p, sampled) ==
    IF IndexRaises(n, ix) \/ ~sampled
    THEN raised' = (IF sampled THEN "IndexError" ELSE "SamplingError") /\ UNCHANGED fits
    ELSE /\ raised' = ""
         /\ fits' = [m \in DOMAIN fits \cup {name} |->
                        IF m = name THEN Trace(model, d, n, ix, p) ELSE fits[m]]

\* mon_utility_less = Utility_less_informed(db_mon, n_subs, idx)
UtilityLessInformedCall(p, sampled) ==
    /\ notebook = "priorsens" /\ raised = "" /\ cell = "Utility_less_informed"
    /\ Fit("mon_utility_less", "Utility_less_informed", db_mon, n_subs, idx, p, sampled)
    /\ db_mon' = FrameAfterFit(db_mon)
    /\ cell' = "Utility_uninformed"
    /\ UNCHANGED <<db_med, n_subs, idx, n_subs_med, idx_med>>
    /\ UNCHANGED <<extractVars, simVars, notebook>>

\* mon_utility_un = Utility_uninformed(db_mon, n_subs, idx)
UtilityUninformedCall(p, sampled) ==
    /\ notebook = "priorsens" /\ raised = "" /\ cell = "Utility_uninformed"
    /\ Fit("mon_utility_un", "Utility_uninformed", db_mon, n_subs, idx, p, sampled)
    /\ db_mon' = FrameAfterFit(db_mon)
    /\ cell' = "estamte_values_less(med)"
    /\ UNCHANGED <<db_med, n_subs, idx, n_subs_med, idx_med>>
    /\ UNCHANGED <<extractVars, simVars, notebook>>

\* med_estimated_less = estamte_values_less(db_med, n_subs_med, idx_med)
EstamteValuesLessMedCall(p, sampled) ==
    /\ notebook = "priorsens" /\ raised = "" /\ cell = "estamte_values_less(med)"
    /\ Fit("med_estimated_less", "estamte_values_less", db_med, n_subs_med, idx_med, p, sampled)
    /\ db_med' = FrameAfterFit(db_med)
    /\ cell' = "estamte_values_less(mon)"
    /\ UNCHANGED <<db_mon, n_subs, idx, n_subs_med, idx_med>>
    /\ UNCHANGED <<extractVars, simVars, notebook>>

\* mon_estimated_less = estamte_values_less(db_mon, n_subs, idx)
EstamteValuesLessMonCall(p, sampled) ==
    /\ notebook = "priorsens" /\ raised = "" /\ cell = "estamte_values_less(mon)"
    /\ Fit("mon_estimated_less", "estamte_values_less", db_mon, n_subs, idx, p, sampled)
    /\ db_mon' = FrameAfterFit(db_mon)
    /\ cell' = "end"
    /\ UNCHANGED <<db_med, n_subs, idx, n_subs_med, idx_med>>
    /\ UNCHANGED <<extractVars, simVars, notebook>>

PriorInit ==
    /\ cell = "reindex"
    /\ db_mon \in MonTables
    /\ db_med \in MedTables
    /\ n_subs = 0
    /\ idx = <<>>
    /\ n_subs_med = 0
    /\ idx_med = <<>>
    /\ fits = <<>>

PriorNext ==
    \/ Reindex
    \/ \E p \in ParamDraws("Utility_less_informed"), sampled \in BOOLEAN : UtilityLessInformedCall(p, sampled)
    \/ \E p \in ParamDraws("Utility_uninformed"), sampled \in BOOLEAN : UtilityUninformedCall(p, sampled)
    \/ \E p \in ParamDraws("estamte_values_less"), sampled \in BOOLEAN : EstamteValuesLessMedCall(p, sampled)
    \/ \E p \in ParamDraws("estamte_values_less"), sampled \in BOOLEAN : EstamteValuesLessMonCall(p, sampled)

----------------------------------------------------------------------------
SimIdle   == /\ db = <<>> /\ N = 0 /\ noise = 0 /\ sim = <<>> /\ sim_idx = <<>>
             /\ utility = <<>> /\ estimated = <<>>
             /\ it = 0 /\ results = <<>> /\ sim_out = <<>> /\ sim_locals = <<>>
PriorIdle == /\ db_mon = <<>> /\ db_med = <<>> /\ n_subs = 0 /\ idx = <<>>
             /\ n_subs_med = 0 /\ idx_med = <<>> /\ fits = <<>>

ExtractIdle ==
    /\ glober = "" /\ nfiles = 0 /\ mat_fname = NoFile /\ sub = ""
    /\ choice = <<>> /\ df = <<>> /\ out = <<>> /\ csv = <<>>

Init ==
    /\ raised = ""
    /\ \/ notebook = "extract" /\ ExtractInit /\ SimIdle /\ PriorIdle
       \/ notebook = "simulation" /\ ExtractIdle /\ SimInit /\ PriorIdle
       \/ notebook = "priorsens" /\ ExtractIdle /\ SimIdle /\ PriorInit

Next == ExtractNext \/ SimNext \/ PriorNext

Spec == Init /\ [][Next]_vars

\* The loop is over: every configuration has been taken and the last
\* iteration has ended
LoopDone == cell = "sim_data" /\ it = NConfigs

\* The simulation loop moves on: to another statement of the body, or to the
\* next SIM.  Under Spec these are the steps of SimNext, and one is possible
\* exactly while the loop is not over.
LoopAdvances ==
    /\ notebook = "simulation" /\ ~LoopDone
    /\ cell' \in {"sim_data", "Utility", "estimate_value", "compare"}
    /\ it' \in {it, it + 1}

\* Every statement of the simulation loop's body returns or raises: the loop
\* does not stay forever before a statement it can execute
LiveSpec == Spec /\ WF_<<cell, it>>(LoopAdvances)

----------------------------------------------------------------------------
(* Properties *)

Indicators(r) == <<r.l1, r.l2, r.l3, r.l4>>

\* C1: in every row of the table sim_data returns the level indicators are
\* cumulative: lj = 1 exactly when j <= level, and 0 otherwise.
C1_LevelIndicatorsCumulative ==
    \A k \in DOMAIN sim :
        \A j \in 1..4 : Indicators(sim[k])[j] = (IF j <= sim[k].level THEN 1 ELSE 0)

\* A row of level 3 with indicators 1 1 1 0
C1_Witness ==
    \E k \in DOMAIN sim : sim[k].level = 3 /\ Indicators(sim[k]) = <<1, 1, 1, 0>>

\* C2: every exported row has choice 0, 1 or NaN, whatever response strings
\* the source file holds, and every row of sim_data's table has choice 0 or 1.
C2_ChoiceBinaryOrMissing ==
    /\ \A n \in DOMAIN csv :
          \A k \in DOMAIN csv[n] : csv[n][k].choice \in {Num(0), Num(1), NaN}
    /\ \A k \in DOMAIN sim : sim[k].choice \in {0, 1}

Reindexed(d, n, ix) ==
    LET subs == { d[k].sub : k \in DOMAIN d }
    IN  /\ n = Cardinality(subs)
        /\ { d[k].subn : k \in DOMAIN d } = 0..(Cardinality(subs) - 1)
        /\ \A a, b \in DOMAIN d : (d[a].subn = d[b].subn) <=> (d[a].sub = d[b].sub)
        /\ Len(ix) = Len(d)
        /\ \A k \in DOMAIN ix : ix[k] = d[k].subn /\ ix[k] \in 0..(n - 1)

\* C3: after the re-indexing cell, in each table the subn values are exactly
\* 0..n_subs-1 with n_subs the number of distinct sub values, two rows share a
\* subn exactly when they share a sub, and every entry of idx is a valid index
\* into a vector of length n_subs.
C3_SubjectNumbersDense ==
    (notebook = "priorsens" /\ cell # "reindex") =>
        /\ Reindexed(db_mon, n_subs, idx)
        /\ Reindexed(db_med, n_subs_med, idx_med)

\* Re-indexed tables whose participant numbers have gaps and repeat
C3_Witness ==
    /\ notebook = "priorsens" /\ cell # "reindex"
    /\ Len(db_mon) = 3 /\ n_subs = 2
    /\ { db_mon[k].sub : k \in DOMAIN db_mon } = {3, 12}
    /\ db_mon[1].sub = 12
    /\ n_subs_med = 2

Unreadable(f) == f.kind \in {"noload", "nofields", "badchoice"}
CaughtInLoop(f) == f.task = "MED" /\ f.kind = "badchoice"

\* C4 as stated: whenever the file a loop has just processed is malformed, the
\* export has skipped it with a printed diagnostic and goes on.
C4_MalformedFilesSkipped ==
    (notebook = "extract" /\ Unreadable(mat_fname)) =>
        /\ raised = ""
        /\ out # <<>>
        /\ out[Len(out)].text = "failed choice"

\* C4 as amended: only the medical loop catches a failure, and only one raised
\* while the per-trial choices are read: it prints 'failed choice <sub>', adds
\* no row and stays in the loop.  Any other failure of a file (loading, the
\* vectors, or anything in the monetary loop) prints nothing, adds no row and
\* stops the export.
C4_OnlyMedChoiceFailureSkipped ==
    [][ /\ ~(notebook = "extract" /\ raised # "")
        /\ (notebook = "extract" /\ nfiles' = nfiles + 1) =>
             /\ CaughtInLoop(mat_fname') =>
                   /\ raised' = ""
                   /\ out' = Append(out, FailedChoice(mat_fname'.sub))
                   /\ df' = df
                   /\ cell' = cell
             /\ (Unreadable(mat_fname') /\ ~CaughtInLoop(mat_fname')) =>
                   /\ raised' # ""
                   /\ out' = out
                   /\ df' = df ]_vars

\* The medical loop skipped a file and then appended the next subject
C4_Witness ==
    /\ notebook = "extract" /\ cell = "med_loop" /\ raised = ""
    /\ \E i \in DOMAIN out : out[i].text = "failed choice"
    /\ mat_fname.kind = "ok"
    /\ df # <<>>

\* C5: every successfully processed file adds exactly 84 rows, one per
\* (block, trial) pair in block-major order, after the rows the table already
\* had, which stay as they were.
C5_OneRowPerTrial ==
    [][ (notebook = "extract" /\ nfiles' = nfiles + 1
         /\ mat_fname'.kind = "ok" /\ raised' = "") =>
            /\ Len(df') = Len(df) + 84
            /\ SubSeq(df', 1, Len(df)) = df
            /\ \A j \in 0..(nBlocks - 1) : \A i \in 0..(nTrialsInBlock - 1) :
                  LET r == df'[Len(df) + nTrialsInBlock * j + i + 1]
                  IN  /\ r.sub = mat_fname'.sub
                      /\ r.rt = FileRT(mat_fname', nTrialsInBlock * j + i + 1)
                      /\ r.choice = RecodeChoice(mat_fname'.task,
                                                 TrialChoice(mat_fname', j, i)) ]_vars

\* Two subjects concatenated
C5_Witness ==
    /\ notebook = "extract"
    /\ Len(df) = 168
    /\ df[1].sub # df[85].sub
    /\ df[2].choice # df[1].choice

EightyFourPerSubject(t, n, ix) ==
    /\ Len(t) = 84 * n
    /\ { t[k].sub : k \in DOMAIN t } = 1..n
    /\ \A id \in 1..n : Cardinality({ k \in DOMAIN t : t[k].sub = id }) = 84
    /\ Len(ix) = Len(t)

\* C6 as stated: for every n_subs >= 1 and every trial table db, sim_data
\* returns a table of 84 * n_subs rows, each ID 1..n_subs on exactly 84 of
\* them, and a sub_idx as long as the table.
C6_ReturnsForEveryTable ==
    (notebook = "simulation" /\ N >= 1) =>
        /\ raised # "ValueError"
        /\ EightyFourPerSubject(sim, N, sim_idx)

\* C6 as amended: a table sim_data(n_subs) returns has 84 * n_subs rows, each
\* ID 1..n_subs on exactly 84 of them, and sub_idx is as long as the table;
\* it returns one for a db of exactly 84 rows, and for a db with any other
\* number of rows the call raises ValueError and returns nothing.
C6_EightyFourTrialsPerSubject ==
    (notebook = "simulation" /\ N >= 1) =>
        /\ sim # <<>> => EightyFourPerSubject(sim, N, sim_idx)
        /\ Len(db) = 84 => (sim # <<>> /\ raised # "ValueError")
        /\ Len(db) # 84 => (sim = <<>> /\ sim_idx = <<>> /\ raised = "ValueError")

\* sim_data has returned a table for two subjects
C6_Witness ==
    /\ notebook = "simulation" /\ raised = "" /\ cell = "Utility"
    /\ N = 2 /\ Len(sim) = 168

\* C7: no call of sim_data changes db, and no call of a model function
\* changes the table it is given.
C7_TablesNotModified ==
    [][ /\ db' = db
        /\ (notebook = "simulation" /\ cell \in {"Utility", "estimate_value"}) => sim' = sim
        /\ (notebook = "priorsens" /\ cell # "reindex") =>
              (db_mon' = db_mon /\ db_med' = db_med) ]_vars

\* sim_data and both model functions have been called, more than once
C7_Witness ==
    /\ notebook = "simulation" /\ cell = "estimate_value"
    /\ utility # <<>> /\ estimated # <<>>
    /\ estimated.n_subs # N
    /\ \E k \in DOMAIN sim : sim[k].choice = 0

AllTables == { df } \cup { csv[n] : n \in DOMAIN csv }

\* C8: in every row the export writes, catch is 0 or 1, and 1 exactly on the
\* catch trials (the trials whose value is 5).
C8_CatchIsTrialFlag ==
    \A t \in AllTables : \A k \in DOMAIN t :
        /\ t[k].catch \in {0, 1}
        /\ (t[k].catch = 1) <=> (t[k].value = RefValue)

DesignHolds(rows) ==
    \A k \in DOMAIN rows :
        /\ rows[k].value \in Range(Values)
        /\ rows[k].risk \in RiskLevels
        /\ rows[k].ambiguity \in AmbLevels
        /\ rows[k].ambiguity > 0 => rows[k].risk = 50

\* C9: when db satisfies the task design so does every row of sim_data's
\* table, and each subject's 84 rows are db's trials in db's order.
C9_DesignPreserved ==
    (notebook = "simulation" /\ sim # <<>>) =>
        /\ DesignHolds(db) => DesignHolds(sim)
        /\ \A k \in DOMAIN sim :
              LET t == db[((k - 1) % 84) + 1]
              IN  /\ sim[k].value = t.value
                  /\ sim[k].risk = t.risk
                  /\ sim[k].ambiguity = t.ambiguity

\* Two subjects simulated from a table that satisfies the design and does not
\* start with a value-5 trial
C9_Witness ==
    /\ notebook = "simulation" /\ Len(sim) = 168
    /\ DesignHolds(db) /\ db[1].value # 5
    /\ sim[85].value = db[1].value

ValueLevel(v) == IF v = 5 THEN 1 ELSE IF v = 8 THEN 2 ELSE IF v = 12 THEN 3 ELSE 4

\* C10 as stated: level is 1 for value 5, 2 for 8, 3 for 12 and 4 for 25,
\* for every trial table.
C10_LevelFixedByValue ==
    \A k \in DOMAIN sim :
        sim[k].value \in Range(Values) => sim[k].level = ValueLevel(sim[k].value)

\* C10 as amended: level is the dense rank of the row's value among the
\* values that occur in db, so it is 1, 2, 3, 4 for 5, 8, 12, 25 when exactly
\* these four values occur; for any two rows the values compare as the levels.
C10_LevelIsDenseRank ==
    (notebook = "simulation" /\ sim # <<>>) =>
        LET occurring == { db[j].value : j \in DOMAIN db }
        IN  /\ \A k \in DOMAIN sim :
                  sim[k].level = Cardinality({ v \in occurring : v <= sim[k].value })
            /\ occurring = Range(Values) =>
                  \A k \in DOMAIN sim : sim[k].level = ValueLevel(sim[k].value)
            /\ \A a, b \in { <<sim[k].value, sim[k].level>> : k \in DOMAIN sim } :
                  (a[1] < b[1]) <=> (a[2] < b[2])

\* A table without value 8, where value 12 has level 2
C10_Witness ==
    /\ notebook = "simulation"
    /\ \A j \in DOMAIN db : db[j].value # 8
    /\ \E k \in DOMAIN sim : sim[k].value = 12 /\ sim[k].level = 2

Levels(par) == <<par.level1, par.level2, par.level3, par.level4>>

\* The ordinal constraint for trace tr of an estimated-value model fitted to
\* table d with index ix
OrdinalConstraint(tr, d, ix) ==
    /\ \A s \in DOMAIN tr.params : \A j \in 1..4 : Levels(tr.params[s])[j] >= 0
    /\ \A k \in DOMAIN d :
          /\ d[k].level \in 1..4 =>
                tr.terms[k].val = SumSeq(SubSeq(Levels(tr.params[ix[k] + 1]), 1, d[k].level))
          /\ tr.terms[k].val >= 0
    /\ \A a, b \in { <<ix[k], d[k].level, tr.terms[k].val>> : k \in DOMAIN d } :
          (a[1] = b[1] /\ a[2] <= b[2]) => a[3] <= b[3]

\* C11: in the estimated-value models, for every subject and every
\* non-negative setting of level1..level4, the value val of a level-k trial
\* is level1 + ... + levelk, so it is non-negative and non-decreasing in k.
C11_OrdinalConstraint ==
    /\ (notebook = "simulation" /\ cell = "compare") =>
          OrdinalConstraint(estimated, sim, sim_idx)
    /\ \A name \in DOMAIN fits :
          /\ name = "med_estimated_less" => OrdinalConstraint(fits[name], db_med, idx_med)
          /\ name = "mon_estimated_less" => OrdinalConstraint(fits[name], db_mon, idx)

\* estimate_value has returned for two subjects; a level-3 trial of the second
\* has the value level1 + level2 + level3 = 4.0 + 0.5 + 0
C11_Witness ==
    /\ notebook = "simulation" /\ cell = "compare"
    /\ \E k \in DOMAIN sim :
          /\ sim_idx[k] = 1 /\ sim[k].level = 3
          /\ Levels(estimated.params[2]) = <<40, 5, 0, 30>>
          /\ estimated.terms[k].val = 45

\* C12: in the medical loop, when reading a subject's choices raises,
\* 'failed choice <sub>' is printed and df stays exactly as it was; the rows
\* of the subject processed next are that subject's own 84 trials, with
\* nothing from the failed subject's partly filled lists.
C12_FailedSubjectLeavesNoTrace ==
    [][ (notebook = "extract" /\ glober = "MED" /\ nfiles' = nfiles + 1) =>
          /\ mat_fname'.kind = "badchoice" =>
                /\ out' = Append(out, FailedChoice(mat_fname'.sub))
                /\ df' = df
                /\ raised' = ""
          /\ (mat_fname.kind = "badchoice" /\ mat_fname'.kind = "ok" /\ raised' = "") =>
                /\ Len(df') = Len(df) + nBlocks * nTrialsInBlock
                /\ SubSeq(df', 1, Len(df)) = df
                /\ \A j \in 0..(nBlocks - 1) : \A i \in 0..(nTrialsInBlock - 1) :
                      LET r == df'[Len(df) + nTrialsInBlock * j + i + 1]
                      IN  /\ r.sub = mat_fname'.sub
                          /\ r.sub # mat_fname.sub
                          /\ r.choice = RecodeChoice("MED", TrialChoice(mat_fname', j, i)) ]_vars

\* A subject whose choices did not read was followed by one whose rows were
\* appended, with a first response other than the failed subject's
C12_Witness ==
    /\ notebook = "extract" /\ glober = "MED" /\ raised = "" /\ nfiles >= 2
    /\ mat_fname.kind = "ok"
    /\ out # <<>> /\ out[Len(out)] = FailedChoice(Subjects[nfiles - 1])
    /\ Len(df) = 84
    /\ df[1].sub = mat_fname.sub
    /\ df[1].choice = Num(0)

\* The configurations that sim_out reports as started and not as failed, in
\* the order of their lines
RECURSIVE Succeeded(_)
Succeeded(lines) ==
    IF lines = <<>> THEN <<>>
    ELSE IF Len(lines) >= 2 /\ lines[2].text = "Simulation failed for"
         THEN Succeeded(SubSeq(lines, 3, Len(lines)))
         ELSE << <<lines[1].N, lines[1].noise>> >> \o Succeeded(Tail(lines))

Started(lines) ==
    LET sel == SelectSeq(lines, LAMBDA l : l.text = "Simulating with")
    IN  [k \in DOMAIN sel |-> <<sel[k].N, sel[k].noise>>]

\* C13: in the simulation loop a configuration whose simulation, fit or
\* comparison raises is reported with 'Simulation failed ...', is not retried,
\* leaves results unchanged and does not stop the loop; one that succeeds
\* appends exactly one row (N, noise, comparison); between iterations, and
\* after the loop, the rows of results are in order exactly the configurations
\* of test taken so far that succeeded.
C13_ResultsAreTheSuccesses ==
    /\ [](notebook = "simulation" /\ cell = "sim_data" =>
            /\ Started(sim_out) = [k \in 1..it |-> SIM(k)]
            /\ [k \in DOMAIN results |-> <<results[k].N, results[k].noise>>]
                  = Succeeded(sim_out))
    /\ [][ notebook = "simulation" =>
            /\ it' \in {it, it + 1}
            /\ it' = it + 1 => (cell = "sim_data" /\ <<N', noise'>> = SIM(it'))
            /\ raised' # "" =>
                  /\ sim_out' # <<>>
                  /\ sim_out'[Len(sim_out')] = SimulationFailed(N', noise', raised')
                  /\ results' = results
                  /\ cell' = "sim_data"
            /\ raised' = "" =>
                  \A k \in DOMAIN sim_out' : k > Len(sim_out) =>
                      sim_out'[k].text # "Simulation failed for"
            /\ results' # results =>
                  /\ cell = "compare" /\ raised' = ""
                  /\ results' = Append(results, [N |-> N, noise |-> noise,
                                                 Comparison |-> Compare(utility, estimated)])
            /\ (cell = "compare" /\ raised' = "") => Len(results') = Len(results) + 1 ]_vars

\* The loop is over: the second and the fourth configuration succeeded, the
\* first and the third failed
C13_Witness ==
    /\ notebook = "simulation" /\ cell = "sim_data" /\ it = NConfigs
    /\ Len(results) = 2
    /\ <<results[1].N, results[1].noise>> = SIM(2)
    /\ <<results[2].N, results[2].noise>> = SIM(4)
    /\ Len(sim_out) = 6

\* C14: in sim_data's table rows 84*k .. 84*k+83 (0-based) carry subject
\* index k and ID k+1, and their riskTol and ambTol are subject k's drawn
\* attitudes plus the row's noise, clipped.
C14_AttitudesAlignedBySubject ==
    (notebook = "simulation" /\ sim # <<>>) =>
        \A k \in DOMAIN sim :
            LET s == (k - 1) \div 84
            IN  /\ sim_idx[k] = s
                /\ sim[k].sub = s + 1
                /\ sim[k].riskTol = Clip(sim_locals.alpha_true[s + 1] + sim_locals.noise_dist_a[k],
                                         RiskTolLo, RiskTolHi)
                /\ sim[k].ambTol = Clip(sim_locals.beta_true[s + 1] + sim_locals.noise_dist_b[k],
                                        AmbTolLo, AmbTolHi)

\* Two subjects with different drawn attitudes and noisy rows
C14_Witness ==
    /\ notebook = "simulation" /\ Len(sim) = 168
    /\ sim_locals.alpha_true[1] # sim_locals.alpha_true[2]
    /\ sim_locals.beta_true[1] # sim_locals.beta_true[2]
    /\ sim[84].riskTol # sim[85].riskTol
    /\ sim[84].ambTol # sim[85].ambTol
    /\ sim[1].riskTol # sim[2].riskTol

\* C15: every row of sim_data's table has riskTol within [0.1, 1.6] and ambTol
\* within [-1.4, 1.4], whatever the noise level and the drawn attitudes, and
\* uRef and uLotto, from which the choice probability is computed, are
\* computed from the riskTol and ambTol stored in the row.
C15_ClippedAttitudesUsed ==
    (notebook = "simulation" /\ sim # <<>>) =>
        \A k \in DOMAIN sim :
            /\ sim[k].riskTol >= RiskTolLo /\ sim[k].riskTol <= RiskTolHi
            /\ sim[k].ambTol >= AmbTolLo /\ sim[k].ambTol <= AmbTolHi
            /\ sim_locals.uRef[k] = Pow(RefValue, sim[k].riskTol) * ProbUnit
            /\ sim_locals.uLotto[k] =
                  Pow(sim[k].value, sim[k].riskTol)
                  * Prob(sim[k].risk, sim[k].ambTol, sim[k].ambiguity)

\* Rows whose attitude plus noise lies above the upper and below the lower
\* bound, stored at the bounds
C15_Witness ==
    /\ notebook = "simulation" /\ sim # <<>>
    /\ \E k \in DOMAIN sim :
          /\ sim_locals.alpha_true[sim_idx[k] + 1] + sim_locals.noise_dist_a[k] > RiskTolHi
          /\ sim[k].riskTol = RiskTolHi
    /\ \E k \in DOMAIN sim :
          /\ sim_locals.beta_true[sim_idx[k] + 1] + sim_locals.noise_dist_b[k] < AmbTolLo
          /\ sim[k].ambTol = AmbTolLo
    /\ \E k \in DOMAIN sim :
          /\ sim_locals.alpha_true[sim_idx[k] + 1] + sim_locals.noise_dist_a[k] < RiskTolLo
          /\ sim[k].riskTol = RiskTolLo

\* C16: the sub_idx sim_data returns is 0-based and valid: every entry lies
\* in 0..n_subs-1, every value of that range occurs, sub = sub_idx + 1 row by
\* row, and indexing the parameter vectors of length N with sim_idx in Utility
\* and estimate_value never raises IndexError.
C16_SubjectIndicesValid ==
    notebook = "simulation" =>
        /\ raised # "IndexError"
        /\ sim # <<>> =>
              /\ \A k \in DOMAIN sim_idx : sim_idx[k] >= 0 /\ sim_idx[k] <= N - 1
              /\ { sim_idx[k] : k \in DOMAIN sim_idx } = 0..(N - 1)
              /\ DOMAIN sim_idx = DOMAIN sim
              /\ \A k \in DOMAIN sim : sim[k].sub = sim_idx[k] + 1
        /\ cell = "compare" =>
              /\ Len(utility.params) = N /\ Len(estimated.params) = N
              /\ \A k \in DOMAIN sim :
                    /\ utility.terms[k] =
                          ModelTerms("Classic Utility", sim[k], utility.params[sim[k].sub])
                    /\ estimated.terms[k] =
                          ModelTerms("Estimated value", sim[k], estimated.params[sim[k].sub])

\* Both model functions have indexed their parameter vectors for two subjects
C16_Witness ==
    /\ notebook = "simulation" /\ cell = "compare" /\ N = 2
    /\ sim_idx[1] = 0 /\ sim_idx[168] = 1
    /\ utility.params[1] # utility.params[2]
    /\ utility.n_subs = 2 /\ estimated.n_subs = 2

IsProbability(x) == x >= 0 /\ x <= ProbUnit

ProbsOf(tr) == { tr.terms[k].prob : k \in DOMAIN tr.terms }

\* C17: prob = risk - beta * (ambiguity / 2) lies in [0, 1] for every trial of
\* the task design and every ambiguity attitude the code admits: ambTol in
\* sim_data, beta in the fitted models.
C17_ProbIsProbability ==
    /\ (notebook = "simulation" /\ DesignHolds(db)) =>
          /\ \A k \in DOMAIN sim :
                IsProbability(Prob(sim[k].risk, sim[k].ambTol, sim[k].ambiguity))
          /\ utility # <<>> => \A x \in ProbsOf(utility) : IsProbability(x)
          /\ estimated # <<>> => \A x \in ProbsOf(estimated) : IsProbability(x)
    /\ \A name \in DOMAIN fits : \A x \in ProbsOf(fits[name]) : IsProbability(x)

\* On how many of its value-5 trials the file's response is the lottery
LotteryOnCatch(f) ==
    Cardinality({ k \in 1..(nBlocks * nTrialsInBlock) :
                    /\ FileTrial(f, k).value = RefValue
                    /\ TrialChoice(f, (k - 1) \div nTrialsInBlock, (k - 1) % nTrialsInBlock)
                          = LotString(f.task) })

CatchTrials(f) ==
    Cardinality({ k \in 1..(nBlocks * nTrialsInBlock) : FileTrial(f, k).value = RefValue })

\* C18: a subject whose file reads is flagged (subject number and count
\* printed) exactly when the lottery was chosen on more than 5 of the value-5
\* trials, a missing choice counting as no lottery; the count lies between 0
\* and the number of value-5 trials, and a flagged subject's rows are appended.
C18_FlaggedIffLotteryOnCatch ==
    [][ (notebook = "extract" /\ nfiles' = nfiles + 1 /\ mat_fname'.kind = "ok") =>
          LET f   == mat_fname'
              cnt == LotteryOnCatch(f)
          IN  /\ cnt >= 0 /\ cnt <= CatchTrials(f)
              /\ (cnt > CatchLimit) <=> (out' = Append(out, CatchLine(f.sub, cnt)))
              /\ (cnt <= CatchLimit) => out' = out
              /\ (cnt > CatchLimit) =>
                    /\ Len(df') = Len(df) + nBlocks * nTrialsInBlock
                    /\ \A k \in (Len(df) + 1)..Len(df') : df'[k].sub = f.sub ]_vars

\* The same for the iterations that complete
C18_FlaggedIffLotteryOnCatchWhenRead ==
    [][ (notebook = "extract" /\ nfiles' = nfiles + 1 /\ mat_fname'.kind = "ok"
         /\ raised' = "") =>
          LET f   == mat_fname'
              cnt == LotteryOnCatch(f)
          IN  /\ cnt >= 0 /\ cnt <= CatchTrials(f)
              /\ (cnt > CatchLimit) <=> (out' = Append(out, CatchLine(f.sub, cnt)))
              /\ (cnt <= CatchLimit) => out' = out
              /\ (cnt > CatchLimit) =>
                    /\ Len(df') = Len(df) + nBlocks * nTrialsInBlock
                    /\ \A k \in (Len(df) + 1)..Len(df') : df'[k].sub = f.sub ]_vars

RiskOnlyCatch(r) == r.value = RefValue /\ r.level = 1 /\ r.ambiguity = 0

\* svLotto <= svRef, so p = (svLotto - svRef) / gamma <= 0 and
\* invlogit(p) <= 1/2
LotteryNotPreferred(t) == t.svLotto <= t.svRef /\ t.num <= 0 /\ t.den > 0

\* C19: on a risk-only catch trial (value 5, level 1, ambiguity 0) the
\* lottery's subjective value does not exceed the reference's in Utility
\* (5^alpha * risk <= 5^alpha) nor in estimate_value (level1 * risk <=
\* level1), for every admissible parameter setting, so the modelled
\* probability of choosing the lottery is at most 1/2.
C19_CatchLotteryNotPreferred ==
    (notebook = "simulation" /\ cell = "compare") =>
        \A k \in DOMAIN sim :
            RiskOnlyCatch(sim[k]) =>
                /\ sim[k].risk <= 75
                /\ 100 * utility.terms[k].svLotto = utility.terms[k].svRef * sim[k].risk
                /\ 100 * estimated.terms[k].svLotto = estimated.terms[k].svRef * sim[k].risk
                /\ LotteryNotPreferred(utility.terms[k])
                /\ LotteryNotPreferred(estimated.terms[k])

\* Both models fitted; on a risk-only catch trial with risk 0.75 the lottery
\* is worth strictly less than the reference in both
C19_Witness ==
    /\ notebook = "simulation" /\ cell = "compare"
    /\ \E k \in DOMAIN sim :
          /\ RiskOnlyCatch(sim[k]) /\ sim[k].risk = 75
          /\ utility.terms[k].num < 0
          /\ estimated.terms[k].num < 0
          /\ utility.params[sim_idx[k] + 1].alpha = 19

\* C20: the attitudes the choices are simulated with lie inside the support
\* of the fitted models: every clipped riskTol within the range (0, 2) of
\* Utility's alpha, every clipped ambTol within the bounds [-1.5, 1.5] of beta
\* in Utility and estimate_value.
C20_TrueParametersInSupport ==
    (notebook = "simulation") =>
        /\ \A k \in DOMAIN sim :
              /\ sim[k].riskTol > AlphaLo /\ sim[k].riskTol < AlphaHi
              /\ sim[k].ambTol >= BetaLo /\ sim[k].ambTol <= BetaHi
        /\ RiskTolLo > AlphaLo /\ RiskTolHi < AlphaHi
        /\ AmbTolLo >= BetaLo /\ AmbTolHi <= BetaHi

\* Simulated rows at the upper riskTol bound and at both ambTol bounds
C20_Witness ==
    /\ notebook = "simulation"
    /\ \E k \in DOMAIN sim : sim[k].riskTol = RiskTolHi
    /\ \E k \in DOMAIN sim : sim[k].ambTol = AmbTolLo
    /\ \E k \in DOMAIN sim : sim[k].ambTol = AmbTolHi

\* The table sim_data(n, noise=z) returns for the draws dr
SimulatedWith(d, n, z, dr) ==
    SimData(d, n, [k \in 1..n |-> Cyc(dr.att, k)],
            [k \in DOMAIN dr.na |-> dr.na[k] * z],
            [k \in DOMAIN dr.nb |-> dr.nb[k] * z], dr.ch)

\* N, noise and the subject index are those of the configuration the loop is
\* at, and sim has that configuration's rows
ConfigOfThisIteration ==
    /\ it \in 1..NConfigs
    /\ <<N, noise>> = SIM(it)
    /\ sim_idx = SubIdx(N, db)
    /\ Len(sim) = N * Len(db)

\* sim is a table sim_data returns for this configuration
TableOfThisIteration == \E dr \in SimDraws : sim = SimulatedWith(db, N, noise, dr)

\* tr is the trace model returns for table d, n subjects and index ix, at
\* the parameters it holds
FittedTo(tr, model, d, n, ix) == tr = Trace(model, d, n, ix, tr.params)

\* C21: in every iteration of the simulation loop both models are fitted to
\* the same data: when Utility is called, sim and sim_idx are what this
\* iteration's one sim_data call returned for this iteration's N and noise;
\* between that call and the comparison nothing assigns sim, sim_idx, N or
\* noise; and the traces compared are fits to exactly that table, index and
\* N, so that no data of an earlier configuration is used, also after an
\* earlier configuration failed.
C21_BothModelsFitSameData ==
    /\ [](notebook = "simulation" =>
            /\ cell \in {"Utility", "estimate_value", "compare"} => ConfigOfThisIteration
            /\ cell = "Utility" => TableOfThisIteration
            /\ cell = "compare" =>
                  /\ FittedTo(utility, "Classic Utility", sim, N, sim_idx)
                  /\ FittedTo(estimated, "Estimated value", sim, N, sim_idx)
                  /\ utility.nobs = estimated.nobs
                  /\ utility.n_subs = N /\ estimated.n_subs = N)
    /\ [][ notebook = "simulation" =>
            /\ cell' \in {"Utility", "estimate_value", "compare"} =>
                  IF cell' = "Utility"
                  THEN cell = "sim_data" /\ it' = it + 1
                  ELSE UNCHANGED <<sim, sim_idx, N, noise, it>>
            /\ cell' = "compare" => utility' = utility
            /\ it' = it => UNCHANGED <<sim, sim_idx, N, noise>> ]_vars

\* The fourth configuration (two subjects) reaches the comparison after the
\* third (one subject) failed in a model fit, its table still in sim when the
\* fourth began
C21_Witness ==
    /\ notebook = "simulation" /\ cell = "compare" /\ it = 4 /\ N = 2
    /\ Len(sim) = 2 * TrialsPerSub
    /\ utility.nobs = 2 * TrialsPerSub /\ estimated.nobs = 2 * TrialsPerSub
    /\ Len(sim_out) >= 3
    /\ sim_out[Len(sim_out) - 1] = SimulationFailed(1, 5, "SamplingError")

\* Utility's terms for a row of sim when alpha is the row's riskTol, beta its
\* ambTol and gamma is 1
UtilityAtTrueAttitudes(r) ==
    UtilityTerms(r, Params(r.riskTol, r.ambTol, 10, <<0, 0, 0, 0>>), 10)

\* C22: the rule the choices are simulated with is the Classic Utility
\* model's rule with inverse temperature 1: for every simulated row, with
\* alpha = riskTol and beta = ambTol, Utility's svRef is sim_data's uRef, its
\* svLotto is sim_data's uLotto, svLotto - svRef = uLotto - uRef, and with
\* gamma = 1 the logit argument p = (svLotto - svRef) / gamma is that
\* difference; where the logistic of it is 1 the simulated choice is the
\* lottery.
C22_SimulationRuleIsUtilityRule ==
    (notebook = "simulation" /\ sim # <<>>) =>
        \A k \in DOMAIN sim :
            LET t == UtilityAtTrueAttitudes(sim[k])
                x == sim_locals.uLotto[k] - sim_locals.uRef[k]
            IN  /\ t.svRef = sim_locals.uRef[k]
                /\ t.svLotto = sim_locals.uLotto[k]
                /\ t.num = x
                /\ t.den = 10 /\ 10 * t.num = x * t.den
                /\ ExpitIsOne(t.num) => sim[k].choice = 1

\* A simulated table with an ambiguous trial on which a nonzero ambTol raises
\* the lottery above the reference, a trial on which the lottery is below the
\* reference, and a trial on which the logistic is 1
C22_Witness ==
    /\ notebook = "simulation" /\ sim # <<>>
    /\ \E k \in DOMAIN sim :
          /\ sim[k].ambiguity = 74 /\ sim[k].ambTol = AmbTolLo
          /\ sim_locals.uLotto[k] > sim_locals.uRef[k]
    /\ \E k \in DOMAIN sim : sim_locals.uLotto[k] < sim_locals.uRef[k]
    /\ \E k \in DOMAIN sim :
          ExpitIsOne(sim_locals.uLotto[k] - sim_locals.uRef[k]) /\ sim[k].choice = 1

\* The task of the file a row was read from
TaskOfRow(r) == IF r.rt <= 100 + nBlocks * nTrialsInBlock THEN "MON" ELSE "MED"

TasksIn(table) == { TaskOfRow(table[k]) : k \in DOMAIN table }

\* C23: the two exports are kept apart: mon.csv holds the accumulated table as
\* it is before the medical cell resets it, the table is empty when the
\* medical loop starts, med.csv holds the table the medical loop accumulated,
\* and so every row of mon.csv comes from a monetary file and every row of
\* med.csv from a medical file.
C23_ExportsKeptApart ==
    notebook = "extract" =>
        /\ cell = "med_init" => ("mon.csv" \in DOMAIN csv /\ csv["mon.csv"] = df)
        /\ (cell = "med_loop" /\ mat_fname.task # "MED") => df = <<>>
        /\ cell = "med_loop" => TasksIn(df) \subseteq {"MED"}
        /\ cell = "end" => ("med.csv" \in DOMAIN csv /\ csv["med.csv"] = df)
        /\ "mon.csv" \in DOMAIN csv => TasksIn(csv["mon.csv"]) \subseteq {"MON"}
        /\ "med.csv" \in DOMAIN csv => TasksIn(csv["med.csv"]) \subseteq {"MED"}

\* Both files written, mon.csv with one monetary subject's rows and med.csv
\* with two medical subjects' rows
C23_Witness ==
    /\ notebook = "extract" /\ cell = "end"
    /\ DOMAIN csv = {"mon.csv", "med.csv"}
    /\ Len(csv["mon.csv"]) = nBlocks * nTrialsInBlock
    /\ Len(csv["med.csv"]) = 2 * nBlocks * nTrialsInBlock
    /\ TasksIn(csv["mon.csv"]) = {"MON"}
    /\ TasksIn(csv["med.csv"]) = {"MED"}

\* The rows of table new after its first n
RowsAfter(new, n) == SubSeq(new, n + 1, Len(new))

\* rows are the rows of file f, one per trial in the file's order
RowsOfFile(rows, f) ==
    /\ Len(rows) = nBlocks * nTrialsInBlock
    /\ \A k \in DOMAIN rows :
          /\ rows[k].sub = f.sub
          /\ rows[k].rt = FileRT(f, k)
          /\ rows[k].value = FileTrial(f, k).value
          /\ rows[k].risk = FileTrial(f, k).risk
          /\ rows[k].ambiguity = FileTrial(f, k).ambiguity

\* C24: accumulation in the export loops is append-only: an iteration leaves
\* the accumulated table's previous rows unchanged and in order and puts after
\* them either the rows of the current subject or nothing; it puts nothing
\* when the file is skipped (or the iteration raised); and outside the cell
\* that re-initialises the table its row count never decreases.
C24_AccumulationAppendOnly ==
    [][ notebook = "extract" =>
          /\ nfiles' = nfiles + 1 =>
                LET f     == mat_fname'
                    added == RowsAfter(df', Len(df))
                IN  /\ Len(df') >= Len(df)
                    /\ SubSeq(df', 1, Len(df)) = df
                    /\ added = <<>> \/ RowsOfFile(added, f)
                    /\ Unreadable(f) => added = <<>>
                    /\ added = <<>> => (Unreadable(f) \/ raised' # "")
          /\ cell # "med_init" => Len(df') >= Len(df) ]_vars

\* The medical table after a subject, a skipped subject and another subject
C24_Witness ==
    /\ notebook = "extract" /\ cell = "med_loop"
    /\ Len(df) = 2 * nBlocks * nTrialsInBlock
    /\ df[1].sub = "12" /\ df[nBlocks * nTrialsInBlock + 1].sub = "60"
    /\ mat_fname.sub = "60"
    /\ \E k \in DOMAIN out : out[k] = FailedChoice("28")

\* Table new has the rows of table old, in the same order and equal in every
\* column but subn
OnlySubnChanged(old, new) ==
    /\ Len(new) = Len(old)
    /\ \A k \in DOMAIN old : [new[k] EXCEPT !.subn = old[k].subn] = old[k]

\* The subn of every row of new is the number of distinct participant numbers
\* of old below the row's
SubnFromOwnTable(old, new) ==
    \A k \in DOMAIN new :
        new[k].subn = Cardinality({ old[j].sub : j \in DOMAIN old } \cap 0..(old[k].sub - 1))

\* C25: the re-indexing cell changes only the subn column: in the monetary
\* and in the medical table the rows, their order and every other column are
\* after the cell what they were before it, and the subn values of a table
\* are computed from that table's own sub column, whatever the other table
\* holds.
C25_ReindexChangesOnlySubn ==
    [][ (notebook = "priorsens" /\ cell = "reindex" /\ cell' # "reindex") =>
          /\ OnlySubnChanged(db_mon, db_mon')
          /\ OnlySubnChanged(db_med, db_med')
          /\ SubnFromOwnTable(db_mon, db_mon')
          /\ SubnFromOwnTable(db_med, db_med') ]_vars

\* Re-indexed tables in which participant 12 is number 2 of the monetary and
\* number 1 of the medical table
C25_Witness ==
    /\ notebook = "priorsens" /\ cell = "Utility_less_informed"
    /\ Len(db_mon) = 3 /\ db_mon[1].sub = 12 /\ db_mon[1].subn = 2
    /\ db_mon[2].sub = 3 /\ db_mon[2].subn = 0
    /\ \E k \in DOMAIN db_med : db_med[k].sub = 12 /\ db_med[k].subn = 1

RECURSIVE IsSubsequence(_, _)
IsSubsequence(a, b) ==
    IF a = <<>> THEN TRUE
    ELSE IF b = <<>> THEN FALSE
    ELSE IF Head(a) = Head(b) THEN IsSubsequence(Tail(a), Tail(b))
    ELSE IsSubsequence(a, Tail(b))

PairwiseDistinct(s) == \A a, b \in DOMAIN s : s[a] = s[b] => a = b

ConfigsOf(res) == [k \in DOMAIN res |-> <<res[k].N, res[k].noise>>]

\* C26: the simulation loop terminates after handling each configuration of
\* test exactly once, in list order, whether configurations succeed or fail:
\* test has 7 pairwise different configurations; the configurations the loop
\* has started are at every moment the first it of them, in order; the rows
\* of results are some of these, in order, each at most once, so never more
\* than 7; and the loop reaches its end and stays there.
C26_LoopHandlesEachConfigurationOnce ==
    /\ [](notebook = "simulation" =>
            /\ Len(test) = 7 /\ PairwiseDistinct(test)
            /\ it <= NConfigs /\ NConfigs <= Len(test)
            /\ Started(sim_out) = [k \in 1..it |-> SIM(k)]
            /\ IsSubsequence(ConfigsOf(results), [k \in 1..it |-> SIM(k)])
            /\ Len(results) <= it
            /\ PairwiseDistinct([k \in 1..NConfigs |-> SIM(k)]) =>
                  PairwiseDistinct(ConfigsOf(results)))
    /\ <>[](notebook = "simulation" => LoopDone)

\* The loop is over, with some configurations failed and some in results
C26_Witness ==
    /\ notebook = "simulation" /\ LoopDone
    /\ Len(Started(sim_out)) = NConfigs
    /\ Len(results) = 3
    /\ ConfigsOf(results) = <<SIM(1), SIM(3), SIM(4)>>
    /\ \E k \in DOMAIN sim_out : sim_out[k].text = "Simulation failed for"

====
